---- MODULE Spec2Model ----
(***************************************************************************)
(* A model of the pystchrt state-machine engine: src/src/fsm.py (guarded   *)
(* handlers, handler lists, event tables, State, the flat FSM loop) and    *)
(* src/src/hsm.py (SimpleState bubbling, CompositeState, HSM dispatch).    *)
(*                                                                         *)
(* Every public call (start, stop, process_event, dispatch, a registration)*)
(* is one action.  The body of a call is computed by operators that thread *)
(* a record ms = [cur, hcur, active, trans, log, err] through the calls    *)
(* the code makes, in the code's order.  ms.err is the Python exception    *)
(* that unwinds the call ("" when none); whatever was assigned before the  *)
(* raise stays assigned.  ms.log is the sequence of the observable calls   *)
(* of the current public call: guards, effects, enter(), exit(),           *)
(* assignments of current.                                                 *)
(*                                                                         *)
(* hsm.py is modelled from its class bodies (SimpleState, CompositeState,  *)
(* HSM); the alias classes of hsm.py lines 11-20 name attributes that      *)
(* fsm.py does not define and are not part of any modelled operation.      *)
(***************************************************************************)
EXTENDS Integers, Sequences, FiniteSets, TLC

VARIABLES
    trans,     \* State.transitions of every state: event type -> list of transitions
    acts,      \* State.activities of every state: event type -> list of activities
    sca,       \* FSM.state_change_activities of every machine
    parent,    \* SimpleState.parent of every state
    states,    \* FSM.states of every machine
    active,    \* State._active of every state
    cur,       \* FSM.current of every machine
    hcur,      \* HSM.current
    log,       \* the observable calls made by the last public call, in order
    res,       \* what the last public call returned
    err,       \* the exception the last public call raised, "" when it returned
    call,      \* the last public call: [op, ev, from]
    driven,    \* a control call (start, stop, process_event, dispatch) was made
    nstop,     \* number of stop() calls that installed a transition
    roots      \* the `states` argument HSM.__init__ was given

vars == <<trans, acts, sca, parent, states, active, cur, hcur, log, res, err,
          call, driven, nstop, roots>>

----------------------------------------------------------------------------
(* Bounds of the model *)

\* FSM.process_event / HSM.dispatch: iterations of `while True` followed
\* before the call is reported as not returning.
MaxIter == 5
\* Nested FSM.process_event calls (bubbling into a composite) followed before
\* the recursion is reported as Python's RuntimeError; a nesting deeper than
\* the number of composite states repeats a machine with nothing changed.
MaxDepth == 3
\* add_transition calls made while building the machine.
MaxTrans == 2
\* stop() calls that install a transition (each appends to a list).
MaxStops == 1
MaxList == 3

----------------------------------------------------------------------------
(* Names *)

None == "none"
alwaysTrueGuard == "alwaysTrueGuard"
nop == "nop"

EnterEvent == "Enter"
ExitEvent == "Exit"
UnnamedEvent == "Unnamed"
\* the Event base class, passed to the on-transition-completed activities
BaseEvent == "Event"
\* an event class defined by the user of the engine
UserEvent == "E"
\* a subclass of the user's event class: class E1(E)
SubEvent == "E1"
Events == {EnterEvent, ExitEvent, UnnamedEvent, BaseEvent, UserEvent, SubEvent}

\* the class an event class is derived from
Base(c) ==
    CASE c = BaseEvent -> None
      [] c = SubEvent -> UserEvent
      [] OTHER -> BaseEvent

RECURSIVE issubclass(_, _)
issubclass(c, d) == c = d \/ (Base(c) # None /\ issubclass(Base(c), d))

\* What the user hands to the engine as an event: an event class, or an
\* instance of an event class that can be instantiated
EventObjects ==
    [kind : {"class"}, cls : Events]
    \cup [kind : {"instance"}, cls : {UserEvent, SubEvent}]

\* (mutant) the class the argument's class is derived from
get_object_class_Base(obj) ==
    IF Base(obj.cls) = None THEN obj.cls ELSE Base(obj.cls)

\* get_object_class: the argument when it is a class, else its class
get_object_class(obj) ==
    IF obj.kind = "class" THEN obj.cls ELSE obj.cls

\* Event.__eq__: the two classes are the same or one derives from the other
Event_eq(a, b) ==
    \/ issubclass(get_object_class(a), get_object_class(b))
    \/ issubclass(get_object_class(b), get_object_class(a))

\* guards supplied by the user; what they return is the caller's input
Guards == {"g1", "g2"}
\* a guard supplied by the user that returns a value that is not a bool
nonBooleanGuard == "nonBooleanGuard"

\* the machine M (a flat FSM, or hsm.top) with its pseudostates I and F,
\* the states A, B, C, the composite states P1, P2 and their pseudostates
Machines == {"M", "P1", "P2"}
Pseudo == {"I", "F", "P1I", "P1F", "P2I", "P2F"}
Leaves == {"A", "B", "C"}
States == Machines \cup Pseudo \cup Leaves

\* N is a second flat FSM, built like M without explicit pseudostates: the
\* default arguments of FSM.__init__ are evaluated once, so that N.initial
\* and N.final are the objects M.initial and M.final
Initial(m) ==
    CASE m = "M" -> "I" [] m = "P1" -> "P1I" [] m = "P2" -> "P2I" [] m = "N" -> "I"
Final(m) ==
    CASE m = "M" -> "F" [] m = "P1" -> "P1F" [] m = "P2" -> "P2F" [] m = "N" -> "F"

IsComposite(s) == s \in Machines

----------------------------------------------------------------------------
(* Guarded handlers, handler lists, event tables (fsm.py) *)

\* One observable call.  op is "dispatch" (an event handed to the current
\* state by a dispatch loop), "guard", "effect", "enter", "exit" or "cur" (an
\* assignment of current); k is "t" (a transition), "a" (an activity of a
\* state), "n" (an on-transition-completed activity) or, for "dispatch" and
\* "cur", the machine; v is the value a guard returned or, for the effect of
\* a state's handler, the state's active flag when the effect ran; a guard
\* that returned no bool is logged with v = FALSE.
Entry(op, st, ev, k, i, v) ==
    [op |-> op, st |-> st, ev |-> ev, k |-> k, i |-> i, v |-> v]

Transition(target) ==
    [guard |-> alwaysTrueGuard, effect |-> nop, target |-> target]
TransitionWithGuard(guard, target) ==
    [guard |-> guard, effect |-> nop, target |-> target]
Activity(action) ==
    [guard |-> alwaysTrueGuard, effect |-> action, target |-> None]
ActivityWithGuard(guard, action) ==
    [guard |-> guard, effect |-> action, target |-> None]

\* TransitionResult(transition=None) / ActivityResult(activity=None)
Untriggered == [triggered |-> FALSE, target |-> None, log |-> <<>>, err |-> ""]

\* self.guard(self.last_event); gv is what each user guard returns
GuardResult(h, gv) ==
    IF h.guard = alwaysTrueGuard THEN TRUE ELSE gv[h.guard]

\* TransitionResult.__addTargetToResponse: the target only when triggered
ResultTarget(h, triggered) ==
    IF triggered THEN h.target ELSE None

\* (mutant) the effect runs whatever the guard returned
EventHandler_after_guard_EffectAlways(h, g, tag, i) ==
    [triggered |-> g, target |-> ResultTarget(h, g),
     log |-> <<Entry("guard", tag.st, tag.ev, tag.k, i, g),
               Entry("effect", tag.st, tag.ev, tag.k, i, tag.on)>>,
     err |-> ""]

\* EventHandlerWithGuardAndEffect.process_event once the guard returned g:
\* the effect when g is True, then the result built from g
EventHandler_after_guard(h, g, tag, i) ==
    [triggered |-> g, target |-> ResultTarget(h, g),
     log |-> IF g THEN <<Entry("guard", tag.st, tag.ev, tag.k, i, g),
                         Entry("effect", tag.st, tag.ev, tag.k, i, tag.on)>>
             ELSE <<Entry("guard", tag.st, tag.ev, tag.k, i, g)>>,
     err |-> ""]

\* (mutant) a guard that is None or returns no bool counts as one that
\* returned False
EventHandler_assert_fails_AsFalse(h, tag, i) ==
    [triggered |-> FALSE, target |-> None, log |-> <<>>, err |-> ""]

\* EventHandlerWithGuardAndEffect.process_event when an assert fails: the
\* guard is None (it is not called), or it was called and returned a value
\* that is not a bool
EventHandler_assert_fails(h, tag, i) ==
    [triggered |-> FALSE, target |-> None,
     log |-> IF h.guard = None THEN <<>>
             ELSE <<Entry("guard", tag.st, tag.ev, tag.k, i, FALSE)>>,
     err |-> "AssertionError"]

\* EventHandlerWithGuardAndEffect.process_event
EventHandler_process_event(h, tag, i, gv) ==
    IF h.guard \in {None, nonBooleanGuard}
    THEN EventHandler_assert_fails(h, tag, i)
    ELSE EventHandler_after_guard(h, GuardResult(h, gv), tag, i)

\* EventHandlerList.process_event: last_result after a handler returned r
LastResult(acc, r) ==
    IF r.triggered
    THEN [triggered |-> TRUE, target |-> r.target,
          log |-> acc.log \o r.log, err |-> r.err]
    ELSE [acc EXCEPT !.log = @ \o r.log, !.err = r.err]

\* (mutant) the list never stops at a triggered handler
Breaks_Never(r, stop_at_first_trigger) == r.err # ""

\* (mutant) every list stops at its first triggered handler
Breaks_AtFirstTrigger(r, stop_at_first_trigger) == r.err # "" \/ r.triggered

\* EventHandlerList.process_event: `break` after the result r of a handler
Breaks(r, stop_at_first_trigger) ==
    r.err # "" \/ (r.triggered /\ stop_at_first_trigger)

\* EventHandlerList.process_event, from handler i on; acc is last_result
\* with the calls made so far
RECURSIVE HandlersFrom(_, _, _, _, _, _)
HandlersStep(hs, i, stop_at_first_trigger, acc, r, tag, gv) ==
    IF Breaks(r, stop_at_first_trigger) THEN LastResult(acc, r)
    ELSE HandlersFrom(hs, i + 1, stop_at_first_trigger, LastResult(acc, r), tag, gv)

HandlersFrom(hs, i, stop_at_first_trigger, acc, tag, gv) ==
    IF i > Len(hs) THEN acc
    ELSE HandlersStep(hs, i, stop_at_first_trigger, acc,
                      EventHandler_process_event(hs[i], tag, i, gv), tag, gv)

EventHandlerList_process_event(hs, stop_at_first_trigger, tag, gv) ==
    HandlersFrom(hs, 1, stop_at_first_trigger, Untriggered, tag, gv)

\* EventDictOfHandlerLists.process_event: the list registered under the
\* event's type; a type is a key exactly when a handler was added under it
EventDict_process_event(dict, event, stop_at_first_trigger, tag, gv) ==
    IF dict[event] # <<>>
    THEN EventHandlerList_process_event(dict[event], stop_at_first_trigger, tag, gv)
    ELSE Untriggered

\* EventDictOfHandlerLists.add_handler
EventDict_add_handler(dict, event, handler) ==
    [dict EXCEPT ![event] = Append(@, handler)]

\* EventDictOfHandlerLists.clear_handlers_for_event
EventDict_clear_handlers_for_event(dict, event) ==
    [dict EXCEPT ![event] = <<>>]

\* State.has_transition_for / has_activities_for: `event in dict`
is_event_a_dict_key(dict, event) == dict[event] # <<>>

----------------------------------------------------------------------------
(* State (fsm.py) *)

Tag(s, event, k, on) == [st |-> s, ev |-> event, k |-> k, on |-> on]

NoResult(ms) == [ms |-> ms, acted |-> FALSE, target |-> None]

\* ms with the calls and the exception of a handler list's result
WithResult(ms, r) == [ms EXCEPT !.log = @ \o r.log, !.err = r.err]

\* State.process_event: the TransitionAndActivityResult of the two results
TransitionAndActivityResult(ms, a, t) ==
    IF a.err # "" THEN NoResult(WithResult(ms, a))
    ELSE [ms |-> WithResult(WithResult(ms, a), t),
          acted |-> a.triggered, target |-> t.target]

\* State.process_event: the activities table, then the transitions table
State_process_event(ms, s, event, gv) ==
    IF ms.err # "" THEN NoResult(ms)
    ELSE TransitionAndActivityResult(
             ms,
             EventDict_process_event(acts[s], event, FALSE,
                                     Tag(s, event, "a", ms.active[s]), gv),
             EventDict_process_event(ms.trans[s], event, TRUE,
                                     Tag(s, event, "t", ms.active[s]), gv))

\* (mutant) the Enter event is processed before the flag is set
State_enter_FlagLast(ms, s, gv) ==
    IF ms.err # "" THEN ms
    ELSE [State_process_event(
              [ms EXCEPT !.log = Append(@, Entry("enter", s, "-", "-", 0, FALSE))],
              s, EnterEvent, gv).ms EXCEPT !.active[s] = TRUE]

\* State.enter: the flag, then the Enter event
State_enter(ms, s, gv) ==
    IF ms.err # "" THEN ms
    ELSE State_process_event(
             [ms EXCEPT !.active[s] = TRUE,
                        !.log = Append(@, Entry("enter", s, "-", "-", 0, FALSE))],
             s, EnterEvent, gv).ms

\* State.exit: self._active = False, once the Exit event was processed
Deactivate(ms, s) ==
    IF ms.err # "" THEN ms ELSE [ms EXCEPT !.active[s] = FALSE]

\* State.exit: the Exit event, then the flag
State_exit(ms, s, gv) ==
    IF ms.err # "" THEN ms
    ELSE Deactivate(
             State_process_event(
                 [ms EXCEPT !.log = Append(@, Entry("exit", s, "-", "-", 0, FALSE))],
                 s, ExitEvent, gv).ms,
             s)

\* self.state_change_activities.process_event(Event) of machine m
NotifyTransitionCompleted(ms, m, gv) ==
    IF ms.err # "" THEN ms
    ELSE WithResult(ms, EventHandlerList_process_event(
                            sca[m], FALSE, Tag(m, BaseEvent, "n", FALSE), gv))

\* self.current = target, of machine m
SetCurrent(ms, m, target) ==
    IF ms.err # "" THEN ms
    ELSE [ms EXCEPT !.cur[m] = target,
                    !.log = Append(@, Entry("cur", target, "-", m, 0, FALSE))]

\* ms with the call `dispatch to the current state` of machine k noted
Dispatching(ms, s, event, k) ==
    [ms EXCEPT !.log = Append(@, Entry("dispatch", s, event, k, 0, FALSE))]

----------------------------------------------------------------------------
(* SimpleState, the flat FSM loop, CompositeState (fsm.py, hsm.py) *)

Raise(ms, e) == [ms EXCEPT !.err = e]

RECURSIVE process_event(_, _, _, _, _)
RECURSIVE FSM_process_event(_, _, _, _, _, _)

\* SimpleState.process_event, once the state's own handlers returned r: the
\* parent when neither an activity nor a transition fired
Bubble(r, s, event, gv, d) ==
    IF r.ms.err # "" THEN r
    ELSE IF ~(r.acted \/ r.target # None) /\ parent[s] # None
    THEN process_event(r.ms, parent[s], event, gv, d)
    ELSE r

\* SimpleState.process_event: the state's own handlers, and the parent when
\* neither an activity nor a transition fired.  A state without parent (every
\* state of a flat FSM) behaves as State.process_event.
SimpleState_process_event(ms, s, event, gv, d) ==
    Bubble(State_process_event(ms, s, event, gv), s, event, gv, d)

\* s.process_event(event) as Python resolves it: CompositeState inherits
\* FSM.process_event (FSM precedes SimpleState in its bases), every other
\* state SimpleState.process_event.  d is the nesting still allowed.
process_event(ms, s, event, gv, d) ==
    IF ms.err # "" THEN NoResult(ms)
    ELSE IF IsComposite(s)
    THEN IF d = 0 THEN NoResult(Raise(ms, "RuntimeError"))
         ELSE FSM_process_event(ms, s, event, gv, d - 1, MaxIter)
    ELSE SimpleState_process_event(ms, s, event, gv, d)

\* (mutant) the target is entered before current is assigned and the
\* on-transition-completed activities are not run
FSM_transition_EnterFirst(event_res, m, gv) ==
    IF event_res.ms.err # "" \/ event_res.target = None
    THEN [ms |-> event_res.ms, acted |-> event_res.acted, target |-> None,
          unnamed_event_needed |-> FALSE]
    ELSE [ms |-> SetCurrent(
                     State_enter(
                         State_exit(event_res.ms, event_res.ms.cur[m], gv),
                         event_res.target, gv),
                     m, event_res.target),
          acted |-> event_res.acted, target |-> event_res.target,
          unnamed_event_needed |-> TRUE]

\* FSM._dipatch_to_current of machine m, once the current state returned
\* event_res: exit, the assignment, enter, the on-transition-completed list
FSM_transition(event_res, m, gv) ==
    IF event_res.ms.err # "" \/ event_res.target = None
    THEN [ms |-> event_res.ms, acted |-> event_res.acted, target |-> None,
          unnamed_event_needed |-> FALSE]
    ELSE [ms |-> NotifyTransitionCompleted(
                     State_enter(
                         SetCurrent(
                             State_exit(event_res.ms, event_res.ms.cur[m], gv),
                             m, event_res.target),
                         event_res.target, gv),
                     m, gv),
          acted |-> event_res.acted, target |-> event_res.target,
          unnamed_event_needed |-> TRUE]

\* FSM._dipatch_to_current of machine m
FSM_dipatch_to_current(ms, m, event, gv, d) ==
    FSM_transition(
        process_event(Dispatching(ms, ms.cur[m], event, m), ms.cur[m], event, gv, d),
        m, gv)

\* (mutant) after a transition the loop dispatches the same event again
FSM_loop_SameEvent(r, m, event, gv, d, n) ==
    IF r.ms.err # "" THEN NoResult(r.ms)
    ELSE IF r.unnamed_event_needed \/ event = EnterEvent
    THEN FSM_process_event(r.ms, m, IF event = EnterEvent THEN UnnamedEvent ELSE event,
                           gv, d, n - 1)
    ELSE [ms |-> r.ms, acted |-> r.acted, target |-> None]

\* (mutant) the loop never breaks: Unnamed is sent after every dispatch
FSM_loop_NoBreak(r, m, event, gv, d, n) ==
    IF r.ms.err # "" THEN NoResult(r.ms)
    ELSE FSM_process_event(r.ms, m, UnnamedEvent, gv, d, n - 1)

\* FSM.process_event of machine m, once a dispatch returned r: the Unnamed
\* event next when a transition was taken or the event was Enter, else the
\* end of the loop.  The StateEventHandlingResult returned answers
\* was_transition_requested() from enter_res, which is untriggered in the
\* dispatch that ends the loop.
FSM_loop(r, m, event, gv, d, n) ==
    IF r.ms.err # "" THEN NoResult(r.ms)
    ELSE IF r.unnamed_event_needed \/ event = EnterEvent
    THEN FSM_process_event(r.ms, m, UnnamedEvent, gv, d, n - 1)
    ELSE [ms |-> r.ms, acted |-> r.acted, target |-> None]

\* FSM.process_event of machine m: the `while True` loop, n iterations left
FSM_process_event(ms, m, event, gv, d, n) ==
    IF ms.err # "" THEN NoResult(ms)
    ELSE IF n = 0 THEN NoResult(Raise(ms, "NoReturn"))
    ELSE FSM_loop(FSM_dipatch_to_current(ms, m, event, gv, d), m, event, gv, d, n)

\* FSM.InitialState.set_initial_transition
set_initial_transition(tr, initial, other) ==
    [tr EXCEPT ![initial] =
        EventDict_add_handler(
            EventDict_clear_handlers_for_event(@, UnnamedEvent),
            UnnamedEvent, Transition(other))]

\* FSM.FinalState.add_final_transition_to_other
add_final_transition_to_other(tr, final, other) ==
    IF other # final
    THEN [tr EXCEPT ![other] = EventDict_add_handler(@, ExitEvent, Transition(final))]
    ELSE tr

\* (mutant) start() does not look at current
FSM_control_NoAssert(ms, m, op) ==
    IF op = "start"
    THEN [ms |-> [ms EXCEPT !.cur[m] = Initial(m)], event |-> EnterEvent]
    ELSE IF ms.cur[m] # Final(m)
         THEN [ms |-> [ms EXCEPT !.trans = add_final_transition_to_other(
                                               @, Final(m), ms.cur[m])],
               event |-> ExitEvent]
         ELSE [ms |-> ms, event |-> None]

\* FSM.start / FSM.stop of machine m: what the call does before it runs the
\* loop with `event`; an exception, or nothing to run, leaves event = None
FSM_control(ms, m, op) ==
    IF op = "start"
    THEN IF ~(ms.cur[m] = Initial(m) \/ ms.cur[m] = Final(m))
         THEN [ms |-> Raise(ms, "AssertionError"), event |-> None]
         ELSE [ms |-> [ms EXCEPT !.cur[m] = Initial(m)], event |-> EnterEvent]
    ELSE IF ms.cur[m] # Final(m)
         THEN [ms |-> [ms EXCEPT !.trans = add_final_transition_to_other(
                                               @, Final(m), ms.cur[m])],
               event |-> ExitEvent]
         ELSE [ms |-> ms, event |-> None]

\* FSM.start (op = "start"), FSM.stop (op = "stop") or
\* FSM.process_event(event) (op = "process_event") of machine m
FSM_run(c, m, gv, d) ==
    IF c.ms.err # "" \/ c.event = None THEN NoResult(c.ms)
    ELSE FSM_process_event(c.ms, m, c.event, gv, d, MaxIter)

FSM_call(ms, m, op, event, gv, d) ==
    IF ms.err # "" THEN NoResult(ms)
    ELSE FSM_run(IF op = "process_event" THEN [ms |-> ms, event |-> event]
                 ELSE FSM_control(ms, m, op),
                 m, gv, d)

\* FSM.start of machine m
FSM_start(ms, m, gv, d) == FSM_call(ms, m, "start", None, gv, d)

\* FSM.stop of machine m
FSM_stop(ms, m, gv, d) == FSM_call(ms, m, "stop", None, gv, d)

\* (mutant) the initial transition goes to the last state of the list
FSM_init_target_Last(m, sts) ==
    IF Len(sts) > 0 THEN sts[Len(sts)] ELSE Final(m)

\* FSM.__init__: the transition of the initial pseudostate goes to the first
\* state of the list, or to final when the list is empty
FSM_init_target(m, sts) ==
    IF Len(sts) > 0 THEN sts[1] ELSE Final(m)

----------------------------------------------------------------------------
(* HSM (hsm.py) *)

Range(seq) == {seq[i] : i \in 1..Len(seq)}

Reverse(seq) == [i \in 1..Len(seq) |-> seq[Len(seq) + 1 - i]]

\* SimpleState.get_parent_stack: the ancestors, root first, the state last
RECURSIVE get_parent_stack(_)
get_parent_stack(s) ==
    IF parent[s] = None THEN <<s>> ELSE Append(get_parent_stack(parent[s]), s)

\* the members of `stack` that are not in `other`, in the order of `stack`
Without(stack, other) ==
    LET Kept(st) == st \notin Range(other)
    IN  SelectSeq(stack, Kept)

\* (mutant) the source path is exited root first
exit_stack_RootFirst(source_stack, target_stack) ==
    Without(source_stack, target_stack)

\* HSM._dipatch_to_current: exit_stack, the source path without the states
\* of the target path, deepest first
exit_stack(source_stack, target_stack) ==
    Reverse(Without(source_stack, target_stack))

\* HSM._dipatch_to_current: enter_stack, the target path without the states
\* of the source path, shallowest first
enter_stack(source_stack, target_stack) ==
    Without(target_stack, source_stack)

\* for st in exit_stack: st.exit()
RECURSIVE ExitAll(_, _, _)
ExitAll(ms, stack, gv) ==
    IF stack = <<>> THEN ms
    ELSE ExitAll(State_exit(ms, Head(stack), gv), Tail(stack), gv)

\* for st in enter_stack: st.enter()
RECURSIVE EnterAll(_, _, _)
EnterAll(ms, stack, gv) ==
    IF stack = <<>> THEN ms
    ELSE EnterAll(State_enter(ms, Head(stack), gv), Tail(stack), gv)

\* self.current = enter_stack[-1]
SetHsmCurrent(ms, stack) ==
    IF ms.err # "" THEN ms
    ELSE IF stack = <<>> THEN Raise(ms, "IndexError")
    ELSE [ms EXCEPT !.hcur = stack[Len(stack)],
                    !.log = Append(@, Entry("cur", stack[Len(stack)], "-", "hsm", 0, FALSE))]

\* self.current.start(): CompositeState.start is FSM.start, SimpleState.start
\* does nothing
start(ms, gv) ==
    IF ms.err # "" THEN ms
    ELSE IF IsComposite(ms.hcur) THEN FSM_start(ms, ms.hcur, gv, MaxDepth).ms
    ELSE ms

\* HSM._dipatch_to_current once the stacks are computed: the exits, the
\* enters, the assignment of current, the on-transition-completed list, start
HSM_transition(ms, exits, enters, gv) ==
    start(NotifyTransitionCompleted(
              SetHsmCurrent(EnterAll(ExitAll(ms, exits, gv), enters, gv), enters),
              "M", gv),
          gv)

\* the TransitionAndActivityResult(response.activity, response.transition)
\* returned when the transition completed
HSM_response(ms, response) ==
    IF ms.err # "" THEN NoResult(ms)
    ELSE [ms |-> ms, acted |-> response.acted, target |-> response.target]

\* HSM._dipatch_to_current, once the current state returned response
HSM_after_response(response, source, gv) ==
    IF response.ms.err # "" THEN NoResult(response.ms)
    ELSE IF response.target = None THEN response
    ELSE HSM_response(
             HSM_transition(
                 response.ms,
                 exit_stack(get_parent_stack(source), get_parent_stack(response.target)),
                 enter_stack(get_parent_stack(source), get_parent_stack(response.target)),
                 gv),
             response)

\* HSM._dipatch_to_current
HSM_dipatch_to_current(ms, event, gv) ==
    HSM_after_response(
        process_event(Dispatching(ms, ms.hcur, event, "hsm"), ms.hcur, event, gv,
                      MaxDepth),
        ms.hcur, gv)

RECURSIVE HSM_dispatch(_, _, _, _)

\* HSM.dispatch, once a dispatch returned response: Unnamed after Enter, the
\* same event again after a transition, else the end of the loop
HSM_loop(response, event, gv, n) ==
    IF response.ms.err # "" THEN NoResult(response.ms)
    ELSE IF event = EnterEvent \/ response.target # None
    THEN HSM_dispatch(response.ms,
                      IF event = EnterEvent THEN UnnamedEvent ELSE event, gv, n - 1)
    ELSE response

\* HSM.dispatch: the `while True` loop, n iterations left
HSM_dispatch(ms, event, gv, n) ==
    IF ms.err # "" THEN NoResult(ms)
    ELSE IF n = 0 THEN NoResult(Raise(ms, "NoReturn"))
    ELSE HSM_loop(HSM_dipatch_to_current(ms, event, gv), event, gv, n)

\* HSM.start / HSM.stop / HSM.dispatch: what the call does before it runs the
\* loop; before the first start() the HSM has no attribute `current`
HSM_control(ms, op, event) ==
    IF op = "hsm.start"
    THEN [ms |-> [ms EXCEPT !.hcur = Initial("M")], event |-> EnterEvent]
    ELSE IF ms.hcur = None
    THEN [ms |-> Raise(ms, "AttributeError"), event |-> None]
    ELSE IF op = "hsm.stop"
    THEN [ms |-> [ms EXCEPT !.trans = add_final_transition_to_other(
                                          @, Final("M"), ms.hcur)],
          event |-> ExitEvent]
    ELSE [ms |-> ms, event |-> event]

HSM_run(c, gv) ==
    IF c.ms.err # "" THEN NoResult(c.ms)
    ELSE HSM_dispatch(c.ms, c.event, gv, MaxIter)

\* hsm.start() (op = "hsm.start"), hsm.stop() (op = "hsm.stop") or
\* hsm.dispatch(event) (op = "hsm.dispatch")
HSM_call(ms, op, event, gv) == HSM_run(HSM_control(ms, op, event), gv)

\* HSM.__init__: self.top = HSM.TopState(), whatever `states` is given
HSM_top_states(given) == <<>>

----------------------------------------------------------------------------
(* The state of the engine and the calls of its user *)

NoHandlers == [e \in Events |-> <<>>]

\* The record the operators thread through one public call
Ms == [cur |-> cur, hcur |-> hcur, active |-> active, trans |-> trans,
       log |-> <<>>, err |-> ""]

\* The variables a public call leaves as the record says; call tells which
\* call it was and the current state it started from
Commit(r, op, ev) ==
    /\ cur' = r.ms.cur
    /\ hcur' = r.ms.hcur
    /\ active' = r.ms.active
    /\ trans' = r.ms.trans
    /\ log' = r.ms.log
    /\ err' = r.ms.err
    /\ res' = [acted |-> r.acted, target |-> r.target]
    /\ call' = [op |-> op, ev |-> ev,
                from |-> IF op \in {"start", "stop", "process_event"}
                         THEN cur["M"] ELSE hcur]
    /\ driven' = TRUE

\* What the user's guards may return during one call: a guard no handler
\* holds returns nothing of interest
GuardUsed(g) ==
    \E s \in DOMAIN trans, e \in Events :
        \/ \E i \in 1..Len(trans[s][e]) : trans[s][e][i].guard = g
        \/ \E i \in 1..Len(acts[s][e]) : acts[s][e][i].guard = g
GuardValues == {gv \in [Guards -> BOOLEAN] : \A g \in Guards : gv[g] => GuardUsed(g)}

\* The user makes a call when the call before it returned: an exception (or a
\* loop that does not end) is the last thing the program does
Idle == err = ""

\* number of transitions registered on the states of `sources`
NTrans(tr, sources) ==
    Cardinality({x \in sources \X Events \X (1..(MaxTrans + MaxStops)) :
                    x[3] <= Len(tr[x[1]][x[2]])})

\* The activities of the machines checked: a start and a stop activity, an
\* on-transition-completed activity, enter and exit activities on A and B, a
\* guarded activity for the user's event on B, an activity for the Unnamed
\* event on C
TheActivities ==
    [s \in States |->
        CASE s = "I" -> [NoHandlers EXCEPT ![EnterEvent] = <<Activity("on_start")>>]
          [] s = "F" -> [NoHandlers EXCEPT ![EnterEvent] = <<Activity("on_stop")>>]
          [] s \in {"A", "P1"} ->
                [NoHandlers EXCEPT ![EnterEvent] = <<Activity("on_enter")>>,
                                   ![ExitEvent] = <<Activity("on_exit")>>]
          [] s = "B" -> [NoHandlers EXCEPT ![EnterEvent] = <<Activity("on_enter")>>,
                                           ![ExitEvent] = <<Activity("on_exit")>>,
                                           ![UserEvent] = <<ActivityWithGuard("g2", "on_e")>>]
          [] s = "C" -> [NoHandlers EXCEPT ![UnnamedEvent] = <<Activity("on_idle")>>]
          [] OTHER -> NoHandlers]

TheStateChangeActivities ==
    [m \in Machines |-> IF m = "M" THEN <<Activity("on_changed")>> ELSE <<>>]

\* FSM.__init__ of every machine of `machines`, given its list of states;
\* `universe` is the set of State objects that exist
Construct(universe, machines, sts) ==
    /\ states = sts
    /\ trans = [s \in universe |->
                  IF \E m \in machines : s = Initial(m)
                  THEN LET m == CHOOSE m \in machines : s = Initial(m)
                       IN  set_initial_transition([x \in universe |-> NoHandlers], s,
                                                  FSM_init_target(m, sts[m]))[s]
                  ELSE NoHandlers]
    /\ cur = [m \in machines |-> Initial(m)]
    /\ active = [s \in universe |-> FALSE]
    /\ acts = [s \in universe |-> TheActivities[s]]
    /\ sca = [m \in machines |-> TheStateChangeActivities[m]]
    /\ hcur = None
    /\ log = <<>>
    /\ res = [acted |-> FALSE, target |-> None]
    /\ err = ""
    /\ call = [op |-> "init", ev |-> "-", from |-> None]
    /\ driven = FALSE
    /\ nstop = 0

----------------------------------------------------------------------------
(* The flat FSM: M = FSM(states), its states A and B plain fsm.State objects *)

FlatStates == {"I", "F", "A", "B"}
FlatLists == {<<"A", "B">>, <<"B", "A">>}
\* the add_transition calls the user may make: source, event, guard, target
FlatRegs ==
    ({"A", "B"} \X {UserEvent, UnnamedEvent} \X {alwaysTrueGuard, "g1"} \X {"A", "B"})
    \cup {<<"A", ExitEvent, alwaysTrueGuard, "B">>}

Init ==
    /\ \E l \in FlatLists : Construct(FlatStates, {"M"}, [m \in {"M"} |-> l])
    /\ parent = [s \in FlatStates |-> None]
    /\ roots = <<>>

\* state.add_transition(event, transition) while the machine is built
AddTransition(s, event, g, target) ==
    /\ ~driven
    /\ NTrans(trans, DOMAIN trans \ Pseudo) < MaxTrans
    /\ trans' = [trans EXCEPT ![s] =
                    EventDict_add_handler(@, event, TransitionWithGuard(g, target))]
    /\ UNCHANGED <<acts, sca, parent, states, active, cur, hcur, log, res, err,
                   call, driven, nstop, roots>>

\* one call on the FSM, with every guard value the call may meet
FsmCall(op, event) ==
    /\ \E gv \in GuardValues :
          \E r \in {FSM_call(Ms, "M", op, event, gv, MaxDepth)} : Commit(r, op, event)
    /\ UNCHANGED <<acts, sca, parent, states, roots>>

\* fsm.start()
FsmStart ==
    /\ Idle
    /\ FsmCall("start", "-")
    /\ UNCHANGED nstop

\* fsm.stop(); the calls that add a transition to final are counted
FsmStop ==
    /\ Idle
    /\ cur["M"] # Final("M") => nstop < MaxStops
    /\ FsmCall("stop", "-")
    /\ nstop' = IF cur["M"] # Final("M") THEN nstop + 1 ELSE nstop

\* fsm.process_event(event)
FsmProcessEvent(event) ==
    /\ Idle
    /\ FsmCall("process_event", event)
    /\ UNCHANGED nstop

Next ==
    \/ \E x \in FlatRegs : AddTransition(x[1], x[2], x[3], x[4])
    \/ FsmStart
    \/ FsmStop
    \/ FsmProcessEvent(UserEvent)

Spec == Init /\ [][Next]_vars

----------------------------------------------------------------------------
(* The HSM: hsm = HSM(roots); P1 and P2 are CompositeState objects with      *)
(* parent hsm.top, A and B SimpleState objects with parent P1, C one with   *)
(* parent P2.  P1 and P2 are built either with their children as `states`   *)
(* or with the default empty list.                                          *)

TheParents ==
    [s \in States |-> CASE s \in {"A", "B"} -> "P1"
                        [] s = "C" -> "P2"
                        [] s \in {"P1", "P2"} -> "M"
                        [] OTHER -> None]

\* the add_transition calls the user may make: source, event, guard, target
HsmRegs ==
    {<<"A", UserEvent, alwaysTrueGuard, "B">>, <<"A", UserEvent, "g1", "B">>,
     <<"A", UserEvent, alwaysTrueGuard, "C">>, <<"A", UserEvent, alwaysTrueGuard, "A">>,
     <<"A", UserEvent, alwaysTrueGuard, "P1">>, <<"B", UserEvent, alwaysTrueGuard, "A">>,
     <<"B", UnnamedEvent, alwaysTrueGuard, "C">>, <<"C", UserEvent, alwaysTrueGuard, "A">>,
     <<"P1", UserEvent, alwaysTrueGuard, "C">>, <<"P1", UserEvent, alwaysTrueGuard, "A">>}

\* the states hsm.top.initial.set_initial_transition may be given
HsmFirst == {"A", "C", "P1", "P2"}

InitHSM ==
    /\ \E filled \in BOOLEAN :
          Construct(States, Machines,
                    [m \in Machines |->
                        CASE m = "M" -> HSM_top_states(<<"P1", "P2">>)
                          [] m = "P1" -> IF filled THEN <<"A", "B">> ELSE <<>>
                          [] m = "P2" -> IF filled THEN <<"C">> ELSE <<>>])
    /\ parent = TheParents
    /\ roots = <<"P1", "P2">>

\* hsm.top.initial.set_initial_transition(state) while the machine is built
HsmSetInitial(s) ==
    /\ ~driven
    /\ trans' = set_initial_transition(trans, Initial("M"), s)
    /\ UNCHANGED <<acts, sca, parent, states, active, cur, hcur, log, res, err,
                   call, driven, nstop, roots>>

\* one call on the HSM, with every guard value the call may meet
HsmCall(op, event) ==
    /\ \E gv \in GuardValues :
          \E r \in {HSM_call(Ms, op, event, gv)} : Commit(r, op, event)
    /\ UNCHANGED <<acts, sca, parent, states, roots>>

\* hsm.start()
HsmStart ==
    /\ Idle
    /\ HsmCall("hsm.start", "-")
    /\ UNCHANGED nstop

\* hsm.stop(); the calls that add a transition to final are counted
HsmStop ==
    /\ Idle
    /\ hcur \notin {None, Final("M")} => nstop < MaxStops
    /\ HsmCall("hsm.stop", "-")
    /\ nstop' = IF hcur \notin {None, Final("M")} THEN nstop + 1 ELSE nstop

\* hsm.dispatch(event)
HsmDispatch(event) ==
    /\ Idle
    /\ HsmCall("hsm.dispatch", event)
    /\ UNCHANGED nstop

NextHSM ==
    \/ \E x \in HsmRegs : AddTransition(x[1], x[2], x[3], x[4])
    \/ \E s \in HsmFirst : HsmSetInitial(s)
    \/ HsmStart
    \/ HsmStop
    \/ HsmDispatch(UserEvent)

SpecHSM == InitHSM /\ [][NextHSM]_vars

----------------------------------------------------------------------------
(* One transitions table: the table of state A, filled by add_transition   *)
(* calls for the user's event, then asked with transitions.process_event   *)

\* the transitions the user may register: guard, target
ListRegs == {alwaysTrueGuard, "g1", "g2"} \X {"A", "B"}

InitList ==
    /\ Construct(FlatStates, {"M"}, [m \in {"M"} |-> <<"A", "B">>])
    /\ parent = [s \in FlatStates |-> None]
    /\ roots = <<>>

\* A.add_transition(UserEvent, TransitionWithGuard(g, target))
ListAddTransition(g, target) ==
    /\ ~driven
    /\ Len(trans["A"][UserEvent]) < MaxList
    /\ trans' = [trans EXCEPT !["A"] =
                    EventDict_add_handler(@, UserEvent, TransitionWithGuard(g, target))]
    /\ UNCHANGED <<acts, sca, parent, states, active, cur, hcur, log, res, err,
                   call, driven, nstop, roots>>

\* A.transitions.process_event(event); call keeps what the guards returned
ListProcessEvent(event) ==
    /\ \E gv \in GuardValues :
          \E r \in {EventDict_process_event(trans["A"], event, TRUE,
                                            Tag("A", event, "t", FALSE), gv)} :
              /\ log' = r.log
              /\ err' = r.err
              /\ res' = [triggered |-> r.triggered, target |-> r.target]
              /\ call' = [op |-> "transitions.process_event", ev |-> event,
                          from |-> "A", gv |-> gv]
    /\ driven' = TRUE
    /\ UNCHANGED <<trans, acts, sca, parent, states, active, cur, hcur, nstop, roots>>

NextList ==
    \/ \E x \in ListRegs : ListAddTransition(x[1], x[2])
    \/ \E event \in {UserEvent, UnnamedEvent} : ListProcessEvent(event)

SpecList == InitList /\ [][NextList]_vars

----------------------------------------------------------------------------
(* One activities table: the table of state A, filled by add_activity      *)
(* calls for the user's event, then asked with activities.process_event    *)

\* the activities the user may register: guard, action
ActRegs == {alwaysTrueGuard, "g1", "g2"} \X {"act1", "act2"}

\* the table of A as State.__init__ leaves it
InitActs ==
    /\ Construct(FlatStates, {"M"}, [m \in {"M"} |-> <<"A", "B">>])
    /\ parent = [s \in FlatStates |-> None]
    /\ roots = <<>>

\* A.add_activity(UserEvent, ActivityWithGuard(g, action))
ActsAddActivity(g, action) ==
    /\ ~driven
    /\ Len(acts["A"][UserEvent]) < MaxList
    /\ acts' = [acts EXCEPT !["A"] =
                   EventDict_add_handler(@, UserEvent, ActivityWithGuard(g, action))]
    /\ UNCHANGED <<trans, sca, parent, states, active, cur, hcur, log, res, err,
                   call, driven, nstop, roots>>

\* A.activities.process_event(event); call keeps what the guards returned
ActsProcessEvent(event) ==
    /\ \E gv \in GuardValues :
          \E r \in {EventDict_process_event(acts["A"], event, FALSE,
                                            Tag("A", event, "a", FALSE), gv)} :
              /\ log' = r.log
              /\ err' = r.err
              /\ res' = [triggered |-> r.triggered, target |-> r.target]
              /\ call' = [op |-> "activities.process_event", ev |-> event,
                          from |-> "A", gv |-> gv]
    /\ driven' = TRUE
    /\ UNCHANGED <<trans, acts, sca, parent, states, active, cur, hcur, nstop, roots>>

NextActs ==
    \/ \E x \in ActRegs : ActsAddActivity(x[1], x[2])
    \/ \E event \in {UserEvent, UnnamedEvent} : ActsProcessEvent(event)

SpecActs == InitActs /\ [][NextActs]_vars

----------------------------------------------------------------------------
(* One handler: a transition or an activity asked with process_event; the   *)
(* handler asked is kept in call.h                                          *)

\* the handlers the user may build
HandlerGuards == {alwaysTrueGuard, "g1", "g2", nonBooleanGuard, None}
Handlers ==
    {TransitionWithGuard(g, t) : g \in HandlerGuards, t \in {"A", "B"}}
    \cup {ActivityWithGuard(g, a) : g \in HandlerGuards, a \in {"act1", "act2"}}

InitHandler ==
    /\ Construct(FlatStates, {"M"}, [m \in {"M"} |-> <<"A", "B">>])
    /\ parent = [s \in FlatStates |-> None]
    /\ roots = <<>>

\* h.process_event(event)
HandlerProcessEvent(h, event) ==
    /\ \E gv \in [Guards -> BOOLEAN] :
          \E r \in {EventHandler_process_event(
                        h, Tag("A", event, IF h.target = None THEN "a" ELSE "t", FALSE),
                        1, gv)} :
              /\ log' = r.log
              /\ err' = r.err
              /\ res' = [triggered |-> r.triggered, target |-> r.target]
              /\ call' = [op |-> "handler.process_event", ev |-> event,
                          from |-> "A", gv |-> gv, h |-> h]
    /\ driven' = TRUE
    /\ UNCHANGED <<trans, acts, sca, parent, states, active, cur, hcur, nstop, roots>>

NextHandler ==
    \E h \in Handlers : \E event \in {UserEvent, UnnamedEvent} :
        HandlerProcessEvent(h, event)

SpecHandler == InitHandler /\ [][NextHandler]_vars

----------------------------------------------------------------------------
(* One state: A is given enter and exit activities, then the states are     *)
(* entered and exited directly.  The log of an exit() that follows the      *)
(* enter() of the same state continues the log of that enter().             *)

\* the add_enter_activity / add_exit_activity calls the user may make
StateRegs == {EnterEvent, ExitEvent} \X {alwaysTrueGuard, "g1"} \X {"act1"}

InitState ==
    /\ Construct(FlatStates, {"M"}, [m \in {"M"} |-> <<"A", "B">>])
    /\ parent = [s \in FlatStates |-> None]
    /\ roots = <<>>

\* A.add_enter_activity(activity) / A.add_exit_activity(activity)
StateAddActivity(event, g, action) ==
    /\ ~driven
    /\ Len(acts["A"][event]) < MaxList
    /\ acts' = [acts EXCEPT !["A"] =
                   EventDict_add_handler(@, event, ActivityWithGuard(g, action))]
    /\ UNCHANGED <<trans, sca, parent, states, active, cur, hcur, log, res, err,
                   call, driven, nstop, roots>>

\* s.enter(); call keeps is_active() before the call
StateEnter(s) ==
    /\ Idle
    /\ \E gv \in GuardValues :
          \E r \in {State_enter(Ms, s, gv)} :
              /\ active' = r.active
              /\ log' = r.log
              /\ err' = r.err
              /\ call' = [op |-> "State.enter", ev |-> EnterEvent, from |-> s,
                          gv |-> gv, before |-> active[s]]
    /\ driven' = TRUE
    /\ UNCHANGED <<trans, acts, sca, parent, states, cur, hcur, res, nstop, roots>>

\* the call before this one was s.enter()
JustEntered(s) == call.op = "State.enter" /\ call.from = s

\* s.exit(); call keeps whether it follows s.enter() and, if so, what the
\* guards returned in that enter() and is_active() before it
StateExit(s) ==
    /\ Idle
    /\ \E gv \in GuardValues :
          \E r \in {State_exit([Ms EXCEPT !.log = IF JustEntered(s) THEN log ELSE <<>>],
                               s, gv)} :
              /\ active' = r.active
              /\ log' = r.log
              /\ err' = r.err
              /\ call' = [op |-> "State.exit", ev |-> ExitEvent, from |-> s,
                          gv |-> gv, entered |-> JustEntered(s),
                          gve |-> IF JustEntered(s) THEN call.gv ELSE gv,
                          before |-> IF JustEntered(s) THEN call.before ELSE active[s]]
    /\ driven' = TRUE
    /\ UNCHANGED <<trans, acts, sca, parent, states, cur, hcur, res, nstop, roots>>

NextState ==
    \/ \E x \in StateRegs : StateAddActivity(x[1], x[2], x[3])
    \/ \E s \in {"A", "B"} : StateEnter(s)
    \/ \E s \in {"A", "B"} : StateExit(s)

SpecState == InitState /\ [][NextState]_vars

----------------------------------------------------------------------------
(* One event table: the transitions table of state A, filled and cleared    *)
(* under the user's event class E and its subclass E1, and asked with       *)
(* classes and instances                                                    *)

\* longest list of the table
MaxTable == 2

\* the events handlers are registered under, the guards and targets of the
\* transitions registered
TableKeys == {x \in EventObjects : x.cls \in {UserEvent, SubEvent}}
TableRegs == {<<alwaysTrueGuard, "A">>, <<alwaysTrueGuard, "B">>, <<"g1", "B">>}

InitTable ==
    /\ Construct(FlatStates, {"M"}, [m \in {"M"} |-> <<"A", "B">>])
    /\ parent = [s \in FlatStates |-> None]
    /\ roots = <<>>

\* A.transitions.add_handler(event, TransitionWithGuard(g, target))
TableAddHandler(event, g, target) ==
    /\ Len(trans["A"][event.cls]) < MaxTable
    /\ trans' = [trans EXCEPT !["A"] =
                    EventDict_add_handler(@, get_object_class(event),
                                          TransitionWithGuard(g, target))]
    /\ call' = [op |-> "table.add_handler", obj |-> event,
                h |-> TransitionWithGuard(g, target), before |-> trans["A"]]
    /\ log' = <<>>
    /\ UNCHANGED <<acts, sca, parent, states, active, cur, hcur, res, err,
                   driven, nstop, roots>>

\* A.transitions.clear_handlers_for_event(event)
TableClear(event) ==
    /\ trans' = [trans EXCEPT !["A"] =
                    EventDict_clear_handlers_for_event(@, get_object_class(event))]
    /\ call' = [op |-> "table.clear_handlers_for_event", obj |-> event,
                before |-> trans["A"]]
    /\ log' = <<>>
    /\ UNCHANGED <<acts, sca, parent, states, active, cur, hcur, res, err,
                   driven, nstop, roots>>

\* A.transitions.process_event(event); call keeps what the guards returned
TableProcessEvent(event) ==
    /\ \E gv \in GuardValues :
          \E r \in {EventDict_process_event(
                        trans["A"], get_object_class(event), TRUE,
                        Tag("A", get_object_class(event), "t", FALSE), gv)} :
              /\ log' = r.log
              /\ err' = r.err
              /\ res' = [triggered |-> r.triggered, target |-> r.target]
              /\ call' = [op |-> "table.process_event", obj |-> event, gv |-> gv]
    /\ driven' = TRUE
    /\ UNCHANGED <<trans, acts, sca, parent, states, active, cur, hcur, nstop, roots>>

NextTable ==
    \/ \E event \in TableKeys : \E x \in TableRegs : TableAddHandler(event, x[1], x[2])
    \/ \E event \in TableKeys : TableClear(event)
    \/ \E event \in EventObjects : TableProcessEvent(event)

SpecTable == InitTable /\ [][NextTable]_vars

----------------------------------------------------------------------------
(* The flat FSM with transitions whose guard is None or returns no bool;    *)
(* call keeps what the guards returned and the active flags before the call *)

\* the add_transition calls the user may make: source, event, guard, target
BadGuardRegs ==
    {<<"A", UserEvent, g, "B">> : g \in {alwaysTrueGuard, "g1", None, nonBooleanGuard}}
    \cup {<<"B", UnnamedEvent, g, "A">> : g \in {alwaysTrueGuard, None, nonBooleanGuard}}

InitBadGuard ==
    /\ Construct(FlatStates, {"M"}, [m \in {"M"} |-> <<"A", "B">>])
    /\ parent = [s \in FlatStates |-> None]
    /\ roots = <<>>

\* one call on the FSM
BadGuardCall(op, event) ==
    /\ \E gv \in GuardValues :
          \E r \in {FSM_call(Ms, "M", op, event, gv, MaxDepth)} :
              /\ cur' = r.ms.cur
              /\ hcur' = r.ms.hcur
              /\ active' = r.ms.active
              /\ trans' = r.ms.trans
              /\ log' = r.ms.log
              /\ err' = r.ms.err
              /\ res' = [acted |-> r.acted, target |-> r.target]
              /\ call' = [op |-> op, ev |-> event, from |-> cur["M"],
                          gv |-> gv, active |-> active]
    /\ driven' = TRUE
    /\ UNCHANGED <<acts, sca, parent, states, roots>>

\* fsm.start()
BadGuardStart ==
    /\ Idle
    /\ BadGuardCall("start", "-")
    /\ UNCHANGED nstop

\* fsm.stop(); the calls that add a transition to final are counted
BadGuardStop ==
    /\ Idle
    /\ cur["M"] # Final("M") => nstop < MaxStops
    /\ BadGuardCall("stop", "-")
    /\ nstop' = IF cur["M"] # Final("M") THEN nstop + 1 ELSE nstop

\* fsm.process_event(event)
BadGuardProcessEvent(event) ==
    /\ Idle
    /\ BadGuardCall("process_event", event)
    /\ UNCHANGED nstop

NextBadGuard ==
    \/ \E x \in BadGuardRegs : AddTransition(x[1], x[2], x[3], x[4])
    \/ BadGuardStart
    \/ BadGuardStop
    \/ BadGuardProcessEvent(UserEvent)

SpecBadGuard == InitBadGuard /\ [][NextBadGuard]_vars

----------------------------------------------------------------------------
(* The initial pseudostate: M = FSM(states) is built with the default      *)
(* arguments initial = InitialState(), final = FinalState(), which Python   *)
(* evaluates once, when FSM.__init__ is defined; every FSM built this way   *)
(* has the same two pseudostate objects, I and F                            *)

\* the lists M is built from, and the lists of another FSM built later
InitialLists == {<<>>, <<"A">>}
OtherLists == {<<>>, <<"B">>}

InitInitial ==
    /\ \E l \in InitialLists : Construct(FlatStates, {"M"}, [m \in {"M"} |-> l])
    /\ parent = [s \in FlatStates |-> None]
    /\ roots = <<>>

\* M.set_initial_state(state)
FsmSetInitialState(state) ==
    /\ Idle
    /\ IF state \in Range(states["M"]) \/ state = Final("M")
       THEN /\ trans' = set_initial_transition(trans, Initial("M"), state)
            /\ err' = ""
       ELSE /\ trans' = trans
            /\ err' = "AssertionError"
    /\ call' = [op |-> "set_initial_state", ev |-> "-", from |-> cur["M"],
                state |-> state]
    /\ log' = <<>>
    /\ UNCHANGED <<acts, sca, parent, states, active, cur, hcur, res, driven,
                   nstop, roots>>

\* FSM(l), another machine built with the default pseudostates: its
\* __init__ sets the initial transition of its initial pseudostate, I
FsmConstructOther(l) ==
    /\ Idle
    /\ trans' = set_initial_transition(trans, Initial("M"), FSM_init_target("M", l))
    /\ call' = [op |-> "FSM.__init__", ev |-> "-", from |-> cur["M"],
                state |-> FSM_init_target("M", l)]
    /\ log' = <<>>
    /\ UNCHANGED <<acts, sca, parent, states, active, cur, hcur, res, err, driven,
                   nstop, roots>>

NextInitial ==
    \/ \E state \in {"A", "B", "F"} : FsmSetInitialState(state)
    \/ \E l \in OtherLists : FsmConstructOther(l)
    \/ FsmStart
    \/ FsmStop

SpecInitial == InitInitial /\ [][NextInitial]_vars

----------------------------------------------------------------------------
(* A machine and a state it does not own: M = FSM([A], InitialState(),      *)
(* FinalState()), B a State object that is not in the list                  *)

\* the add_transition calls the user may make: source, event, guard, target
OwnedRegs == {"A", "B"} \X {UserEvent} \X {alwaysTrueGuard, "g1"} \X {"A", "B"}

InitOwned ==
    /\ Construct(FlatStates, {"M"}, [m \in {"M"} |-> <<"A">>])
    /\ parent = [s \in FlatStates |-> None]
    /\ roots = <<>>

NextOwned ==
    \/ \E x \in OwnedRegs : AddTransition(x[1], x[2], x[3], x[4])
    \/ \E state \in {"A", "B", "F"} : FsmSetInitialState(state)
    \/ FsmStart
    \/ FsmStop
    \/ FsmProcessEvent(UserEvent)

SpecOwned == InitOwned /\ [][NextOwned]_vars

----------------------------------------------------------------------------
(* Two machines built with the default pseudostates: M = FSM([A]) and,      *)
(* later, N = FSM([B]).  call.machine tells a call on N from a call on M.   *)

\* M is built; N is not built yet (its current is None)
InitShared ==
    /\ states = [m \in {"M", "N"} |-> IF m = "M" THEN <<"A">> ELSE <<>>]
    /\ trans = set_initial_transition([s \in FlatStates |-> NoHandlers], Initial("M"),
                                      FSM_init_target("M", <<"A">>))
    /\ cur = [m \in {"M", "N"} |-> IF m = "M" THEN Initial("M") ELSE None]
    /\ active = [s \in FlatStates |-> FALSE]
    /\ acts = [s \in FlatStates |-> TheActivities[s]]
    /\ sca = [m \in {"M", "N"} |-> <<>>]
    /\ hcur = None
    /\ log = <<>>
    /\ res = [acted |-> FALSE, target |-> None]
    /\ err = ""
    /\ call = [op |-> "init", ev |-> "-", from |-> None]
    /\ driven = FALSE
    /\ nstop = 0
    /\ parent = [s \in FlatStates |-> None]
    /\ roots = <<>>

\* N = FSM([B])
OtherConstruct ==
    /\ Idle
    /\ cur["N"] = None
    /\ states' = [states EXCEPT !["N"] = <<"B">>]
    /\ cur' = [cur EXCEPT !["N"] = Initial("N")]
    /\ trans' = set_initial_transition(trans, Initial("N"), FSM_init_target("N", <<"B">>))
    /\ call' = [op |-> "FSM.__init__", ev |-> "-", from |-> None, machine |-> "N"]
    /\ log' = <<>>
    /\ UNCHANGED <<acts, sca, parent, active, hcur, res, err, driven, nstop, roots>>

\* N.set_initial_state(state)
OtherSetInitialState(state) ==
    /\ Idle
    /\ cur["N"] # None
    /\ IF state \in Range(states["N"]) \/ state = Final("N")
       THEN /\ trans' = set_initial_transition(trans, Initial("N"), state)
            /\ err' = ""
       ELSE /\ trans' = trans
            /\ err' = "AssertionError"
    /\ call' = [op |-> "set_initial_state", ev |-> "-", from |-> cur["N"],
                machine |-> "N"]
    /\ log' = <<>>
    /\ UNCHANGED <<acts, sca, parent, states, active, cur, hcur, res, driven,
                   nstop, roots>>

\* N.add_start_activity(activity) (pseudo = N.initial) and
\* N.add_stop_activity(activity) (pseudo = N.final)
OtherAddActivity(pseudo, action) ==
    /\ Idle
    /\ cur["N"] # None
    /\ Len(acts[pseudo][EnterEvent]) < MaxList
    /\ acts' = [acts EXCEPT ![pseudo] =
                   EventDict_add_handler(@, EnterEvent, Activity(action))]
    /\ call' = [op |-> "add_activity", ev |-> "-", from |-> cur["N"], machine |-> "N"]
    /\ log' = <<>>
    /\ UNCHANGED <<trans, sca, parent, states, active, cur, hcur, res, err, driven,
                   nstop, roots>>

\* one call on N
OtherCall(op, event) ==
    /\ \E gv \in GuardValues :
          \E r \in {FSM_call(Ms, "N", op, event, gv, MaxDepth)} :
              /\ cur' = r.ms.cur
              /\ hcur' = r.ms.hcur
              /\ active' = r.ms.active
              /\ trans' = r.ms.trans
              /\ log' = r.ms.log
              /\ err' = r.ms.err
              /\ res' = [acted |-> r.acted, target |-> r.target]
              /\ call' = [op |-> op, ev |-> event, from |-> cur["N"], machine |-> "N"]
    /\ driven' = TRUE
    /\ UNCHANGED <<acts, sca, parent, states, roots>>

\* N.start()
OtherStart ==
    /\ Idle
    /\ cur["N"] # None
    /\ OtherCall("start", "-")
    /\ UNCHANGED nstop

\* N.stop(); the calls that add a transition to final are counted
OtherStop ==
    /\ Idle
    /\ cur["N"] # None
    /\ cur["N"] # Final("N") => nstop < MaxStops
    /\ OtherCall("stop", "-")
    /\ nstop' = IF cur["N"] # Final("N") THEN nstop + 1 ELSE nstop

\* N.process_event(event)
OtherProcessEvent(event) ==
    /\ Idle
    /\ cur["N"] # None
    /\ OtherCall("process_event", event)
    /\ UNCHANGED nstop

NextShared ==
    \/ OtherConstruct
    \/ \E state \in {"A", "B", "F"} : OtherSetInitialState(state)
    \/ OtherAddActivity(Initial("N"), "other_start")
    \/ OtherAddActivity(Final("N"), "other_stop")
    \/ OtherStart
    \/ OtherStop
    \/ OtherProcessEvent(UserEvent)
    \/ FsmStart
    \/ FsmStop
    \/ FsmProcessEvent(UserEvent)

SpecShared == InitShared /\ [][NextShared]_vars

----------------------------------------------------------------------------
(* Reading the log of a call *)

\* the exit/enter/assignment calls and the on-transition-completed activities
Structural(e) ==
    e.op \in {"exit", "cur", "enter"} \/ (e.op = "effect" /\ e.k = "n")

\* positions of the log where machine m hands an event to its current state
Dispatches(m) == {j \in 1..Len(log) : log[j].op = "dispatch" /\ log[j].k = m}

\* the position after the part of the log that dispatch j produced
SegEnd(m, j) ==
    IF \E x \in Dispatches(m) : x > j
    THEN CHOOSE x \in Dispatches(m) : x > j /\ \A y \in Dispatches(m) : y > j => x <= y
    ELSE Len(log) + 1

\* the transitions whose effect ran while dispatch j looked for a handler,
\* before anything was exited: the transitions dispatch j triggered
Triggered(m, j) ==
    {x \in (j + 1)..(SegEnd(m, j) - 1) :
        /\ log[x].op = "effect" /\ log[x].k = "t"
        /\ \A y \in (j + 1)..(x - 1) : log[y].op \notin {"exit", "cur", "enter"}}

TargetOf(x) == trans[log[x].st][log[x].ev][log[x].i].target

StructuralPart(m, j) ==
    SelectSeq(SubSeq(log, j, SegEnd(m, j) - 1), Structural)

\* what one transition of machine m from s to t must show, in order
TransitionCalls(m, s, t) ==
    <<Entry("exit", s, "-", "-", 0, FALSE),
      Entry("cur", t, "-", m, 0, FALSE),
      Entry("enter", t, "-", "-", 0, FALSE)>>
    \o [i \in 1..Len(sca[m]) |-> Entry("effect", m, BaseEvent, "n", i, FALSE)]

NCur(m) == Cardinality({j \in 1..Len(log) : log[j].op = "cur" /\ log[j].k = m})

----------------------------------------------------------------------------
(* Claims about the flat FSM, checked under Spec *)

\* C1: whenever a dispatch to the current state of the flat FSM triggers a
\* transition, the calls that follow before the next dispatch are exactly
\* exit() of the old current state, the assignment of the target to current,
\* enter() of the target and one run of each on-transition-completed
\* activity, in this order and once each; this for the first dispatch of a
\* call and for every chained one.
C1_TransitionSequence ==
    \A j \in Dispatches("M") :
        Triggered("M", j) # {} =>
            \E x \in Triggered("M", j) :
                StructuralPart("M", j) = TransitionCalls("M", log[j].st, TargetOf(x))

\* a process_event call that took the transition of the user's event and a
\* chained one
C1_Witness ==
    /\ call.op = "process_event"
    /\ err = ""
    /\ NCur("M") >= 2

\* C2: in a call of the flat FSM, a dispatch is followed by another exactly
\* when it was the dispatch of Enter or triggered a transition, and the
\* dispatch that follows is of the Unnamed event; the first dispatch is of
\* the event of the call; so when the call returns, its last dispatch was to
\* the state that is current and triggered no transition.
C2_UnnamedChaining ==
    \A j \in Dispatches("M") :
        LET continues == log[j].ev = EnterEvent \/ Triggered("M", j) # {}
        IN  /\ (\A x \in Dispatches("M") : j <= x) =>
                   log[j].ev = CASE call.op = "start" -> EnterEvent
                                 [] call.op = "stop" -> ExitEvent
                                 [] OTHER -> call.ev
            /\ SegEnd("M", j) <= Len(log) =>
                   continues /\ log[SegEnd("M", j)].ev = UnnamedEvent
            /\ (SegEnd("M", j) > Len(log) /\ err = "") =>
                   ~continues /\ log[j].st = cur["M"]

\* start() went from the initial pseudostate through two states linked by
\* Unnamed transitions and returned
C2_Witness ==
    /\ call.op = "start"
    /\ err = ""
    /\ NCur("M") >= 2
    /\ Cardinality(Dispatches("M")) >= 4

InLog(e) == \E j \in 1..Len(log) : log[j] = e

\* C3: start() on a flat FSM that is at its initial pseudostate, built from
\* a non-empty list whose first state has no Unnamed transition, returns with
\* current equal to that first state (not the initial pseudostate), the first
\* state active, after the start activities ran, the transition of the
\* initial pseudostate was taken and the enter-activities of the first state
\* ran with the state already active.
C3_StartEntersFirstState ==
    (/\ call.op = "start" /\ call.from = Initial("M")
     /\ Len(states["M"]) > 0
     /\ trans[states["M"][1]][UnnamedEvent] = <<>>) =>
        LET first == states["M"][1]
        IN  /\ err = ""
            /\ cur["M"] = first /\ cur["M"] # Initial("M")
            /\ active[first]
            /\ \A i \in 1..Len(acts[Initial("M")][EnterEvent]) :
                   InLog(Entry("effect", Initial("M"), EnterEvent, "a", i, FALSE))
            /\ InLog(Entry("effect", Initial("M"), UnnamedEvent, "t", 1, FALSE))
            /\ InLog(Entry("enter", first, "-", "-", 0, FALSE))
            /\ \A i \in 1..Len(acts[first][EnterEvent]) :
                   InLog(Entry("effect", first, EnterEvent, "a", i, TRUE))

\* start() returned on a machine whose first state is B and has enter-activities
C3_Witness ==
    /\ call.op = "start" /\ call.from = Initial("M")
    /\ states["M"][1] = "B"
    /\ trans["B"][UnnamedEvent] = <<>>
    /\ cur["M"] = "B"
    /\ acts["B"][EnterEvent] # <<>>

----------------------------------------------------------------------------
(* Claims about the HSM, checked under SpecHSM *)

\* the transition of hsm.top.initial is the one HSM.__init__ left
AsConstructed ==
    trans[Initial("M")][UnnamedEvent] =
        <<Transition(FSM_init_target("M", states["M"]))>>

\* C4: the first start() of an HSM built from a non-empty root set, with the
\* initial transition as the constructor left it, returns with current equal
\* to the first state of the root set, that state entered and active, and
\* current neither the top-level initial nor the top-level final pseudostate.
C4_HsmStartEntersFirstRoot ==
    (/\ call.op = "hsm.start" /\ call.from = None
     /\ AsConstructed
     /\ Len(roots) > 0) =>
        /\ err = ""
        /\ hcur = roots[1]
        /\ hcur \notin {Initial("M"), Final("M")}
        /\ active[roots[1]]
        /\ InLog(Entry("enter", roots[1], "-", "-", 0, FALSE))

\* the exit-activities of state s ran
ExitActivitiesRan(s) ==
    \A i \in 1..Len(acts[s][ExitEvent]) :
        InLog(Entry("effect", s, ExitEvent, "a", i, TRUE))

StopActivitiesRan ==
    \A i \in 1..Len(acts[Final("M")][EnterEvent]) :
        InLog(Entry("effect", Final("M"), EnterEvent, "a", i, TRUE))

\* position of the first exit() of state s in the log, 0 when there is none
ExitPos(s) ==
    IF \E j \in 1..Len(log) : log[j].op = "exit" /\ log[j].st = s
    THEN CHOOSE j \in 1..Len(log) :
             /\ log[j].op = "exit" /\ log[j].st = s
             /\ \A x \in 1..(j - 1) : ~(log[x].op = "exit" /\ log[x].st = s)
    ELSE 0

\* C5: hsm.stop() called while current is a state other than final returns
\* with current equal to the final pseudostate, after every state on the
\* path of the prior current state was exited, deepest first, with its
\* exit-activities run, and after the stop activities ran; hsm.stop() called
\* at final changes nothing and returns an untriggered result.
C5_StopReachesFinal ==
    /\ (call.op = "hsm.stop" /\ call.from \notin {None, Final("M")}) =>
          LET path == get_parent_stack(call.from)
          IN  /\ err = ""
              /\ hcur = Final("M")
              /\ \A i \in 1..Len(path) :
                     /\ ExitPos(path[i]) > 0
                     /\ ExitActivitiesRan(path[i])
                     /\ i > 1 => ExitPos(path[i]) < ExitPos(path[i - 1])
              /\ StopActivitiesRan
    /\ (call.op = "hsm.stop" /\ call.from = Final("M")) =>
          /\ err = ""
          /\ hcur = Final("M")
          /\ \A j \in 1..Len(log) : log[j].op = "dispatch"
          /\ res = [acted |-> FALSE, target |-> None]

\* C5 for the flat FSM
C5_FlatStopReachesFinal ==
    /\ (call.op = "stop" /\ call.from # Final("M")) =>
          /\ err = ""
          /\ cur["M"] = Final("M")
          /\ ExitPos(call.from) > 0
          /\ ExitActivitiesRan(call.from)
          /\ StopActivitiesRan
    /\ (call.op = "stop" /\ call.from = Final("M")) =>
          /\ err = ""
          /\ cur["M"] = Final("M")
          /\ log = <<>>
          /\ res = [acted |-> FALSE, target |-> None]

\* the states that handle event e themselves: an activity or a transition is
\* registered for e
Handles(s, e) == trans[s][e] # <<>> \/ acts[s][e] # <<>>

\* the bubble chain of s: s and its ancestors
BubbleChain(s) == Range(get_parent_stack(s))

\* C6: hsm.dispatch(e), when neither the current state nor any state of its
\* bubble chain has a transition or an activity registered for e, returns
\* normally with current unchanged, without any enter(), exit(), assignment
\* of current or on-transition-completed activity (so every active flag is
\* unchanged), and its result reports no activity and no transition.
C6_UnhandledEventChangesNothing ==
    (/\ call.op = "hsm.dispatch"
     /\ call.from # None
     /\ \A s \in BubbleChain(call.from) : ~Handles(s, call.ev)) =>
        /\ err = ""
        /\ hcur = call.from
        /\ \A j \in 1..Len(log) : ~Structural(log[j])
        /\ res = [acted |-> FALSE, target |-> None]

\* C6 for the flat FSM and process_event
C6_FlatUnhandledEventChangesNothing ==
    (/\ call.op = "process_event"
     /\ ~Handles(call.from, call.ev)) =>
        /\ err = ""
        /\ cur["M"] = call.from
        /\ \A j \in 1..Len(log) : ~Structural(log[j])
        /\ res = [acted |-> FALSE, target |-> None]

\* the handlers of table k ("a" or "t") of state s that were asked for event e
Asked(s, e, k) ==
    {j \in 1..Len(log) :
        log[j].op = "guard" /\ log[j].st = s /\ log[j].ev = e /\ log[j].k = k}

\* C7: when hsm.dispatch(e) finds the current leaf without an activity or a
\* transition for e, the transitions and activities registered for e on its
\* parent composite are evaluated, and an unguarded transition registered
\* there is taken: current ends on the path of its target.
C7_BubblingReachesAncestorHandlers ==
    (/\ call.op = "hsm.dispatch"
     /\ call.from \in Leaves
     /\ ~Handles(call.from, call.ev)
     /\ parent[call.from] # None
     /\ trans[parent[call.from]][call.ev] # <<>>
     /\ trans[parent[call.from]][call.ev][1].guard = alwaysTrueGuard) =>
        /\ Asked(parent[call.from], call.ev, "t") # {}
        /\ \E j \in 1..Len(log) :
               /\ log[j].op = "cur" /\ log[j].k = "hsm"
               /\ log[j].st = trans[parent[call.from]][call.ev][1].target

\* the state s and its ancestors, s first
RECURSIVE PathUp(_)
PathUp(s) == IF parent[s] = None THEN <<s>> ELSE <<s>> \o PathUp(parent[s])

\* the calls the claim expects for a transition from s to t: exit() of the
\* states on the path of s that are not on the path of t, deepest first, then
\* enter() of the states on the path of t that are not on the path of s,
\* shallowest first
ExpectedCalls(s, t) ==
    LET NotOnT(x) == x \notin Range(PathUp(t))
        NotOnS(x) == x \notin Range(PathUp(s))
        exits == SelectSeq(PathUp(s), NotOnT)
        enters == Reverse(SelectSeq(PathUp(t), NotOnS))
    IN  [i \in 1..Len(exits) |-> <<"exit", exits[i]>>]
        \o [i \in 1..Len(enters) |-> <<"enter", enters[i]>>]

\* the transitions of its own that the state hsm.dispatch handed the event to
\* in dispatch j triggered
HsmTriggered(j) == {x \in Triggered("hsm", j) : log[x].st = log[j].st}

\* the position in the part of dispatch j where the HSM assigns current, or
\* the end of the part when it does not
HsmAssigned(j) ==
    IF \E x \in j..(SegEnd("hsm", j) - 1) : log[x].op = "cur" /\ log[x].k = "hsm"
    THEN CHOOSE x \in j..(SegEnd("hsm", j) - 1) : log[x].op = "cur" /\ log[x].k = "hsm"
    ELSE SegEnd("hsm", j)

\* the exit() and enter() calls logged at the positions from..(to - 1)
ExitEnterCalls(from, to) ==
    LET IsCall(e) == e.op \in {"exit", "enter"}
        calls == SelectSeq(SubSeq(log, from, to - 1), IsCall)
    IN  [i \in 1..Len(calls) |-> <<calls[i].op, calls[i].st>>]

C9_UnnamedAfterTransition ==
    (call.op = "hsm.dispatch" /\ err = "") =>
        \A j \in Dispatches("hsm") :
            /\ (HsmTriggered(j) # {} /\ SegEnd("hsm", j) <= Len(log)) =>
                   log[SegEnd("hsm", j)].ev = UnnamedEvent
            /\ (HsmTriggered(j) # {} /\ log[j].ev = call.ev) =>
                   \A x \in Dispatches("hsm") : x < j => HsmTriggered(x) = {}

----------------------------------------------------------------------------
(* Claims about handler lists, checked under SpecList *)

\* the guard of handler h returned True in the call
GuardHeld(h) == h.guard = alwaysTrueGuard \/ call.gv[h.guard]

\* the guard entry and the effect entry of handler i of the transitions of A
GuardCall(i, v) == Entry("guard", "A", call.ev, "t", i, v)
EffectCall(i) == Entry("effect", "A", call.ev, "t", i, FALSE)

\* C10: transitions.process_event(e) evaluates the guards of the transitions
\* registered for e in registration order up to the first one that returns
\* True, runs the effect of that transition and returns its result (its
\* target); no guard or effect of a later transition is invoked.  When no
\* guard returns True, or nothing is registered for e, every guard was asked
\* once, no effect ran and the result is the untriggered one (not triggered,
\* no target).
C10_FirstTriggerWins ==
    call.op = "transitions.process_event" =>
        LET hs == trans["A"][call.ev]
            held == {i \in 1..Len(hs) : GuardHeld(hs[i])}
        IN  IF held = {}
            THEN /\ res = [triggered |-> FALSE, target |-> None]
                 /\ log = [i \in 1..Len(hs) |-> GuardCall(i, FALSE)]
            ELSE LET first == CHOOSE i \in held : \A x \in held : i <= x
                 IN  /\ res = [triggered |-> TRUE, target |-> hs[first].target]
                     /\ log = [i \in 1..(first - 1) |-> GuardCall(i, FALSE)]
                              \o <<GuardCall(first, TRUE), EffectCall(first)>>

\* a guarded transition registered before an unguarded one to another state
\* won because its guard returned True
C10_Witness ==
    /\ call.op = "transitions.process_event" /\ call.ev = UserEvent
    /\ Len(trans["A"][UserEvent]) >= 2
    /\ trans["A"][UserEvent][1].guard = "g1"
    /\ trans["A"][UserEvent][2].guard = alwaysTrueGuard
    /\ trans["A"][UserEvent][1].target # trans["A"][UserEvent][2].target
    /\ call.gv["g1"]
    /\ res = [triggered |-> TRUE, target |-> trans["A"][UserEvent][1].target]

\* the calls a run-all list makes from handler i on: each guard once, in
\* registration order, each effect right after its guard when it held
RECURSIVE RunAllCalls(_, _)
RunAllCalls(hs, i) ==
    IF i > Len(hs) THEN <<>>
    ELSE <<Entry("guard", "A", call.ev, "a", i, GuardHeld(hs[i]))>>
         \o (IF GuardHeld(hs[i])
             THEN <<Entry("effect", "A", call.ev, "a", i, FALSE)>> ELSE <<>>)
         \o RunAllCalls(hs, i + 1)

\* C11: activities.process_event(e) invokes every activity registered for e
\* exactly once, in registration order, whether or not an earlier one
\* triggered (its guard once, its action when the guard held); the result is
\* triggered exactly when some activity triggered, and it is the untriggered
\* result when none did or when nothing is registered for e.
C11_RunAll ==
    call.op = "activities.process_event" =>
        LET hs == acts["A"][call.ev]
        IN  /\ log = RunAllCalls(hs, 1)
            /\ res = [triggered |-> \E i \in 1..Len(hs) : GuardHeld(hs[i]),
                      target |-> None]

\* three activities were asked; the first triggered, the second did not, the
\* third triggered after it
C11_Witness ==
    /\ call.op = "activities.process_event" /\ call.ev = UserEvent
    /\ Len(acts["A"][UserEvent]) = 3
    /\ GuardHeld(acts["A"][UserEvent][1])
    /\ ~GuardHeld(acts["A"][UserEvent][2])
    /\ GuardHeld(acts["A"][UserEvent][3])
    /\ Len(log) = 5
    /\ res.triggered

----------------------------------------------------------------------------
(* Claims about one handler, checked under SpecHandler *)

\* positions of the log where the guard / the effect of the handler was called
GuardCalls == {j \in 1..Len(log) : log[j].op = "guard"}
EffectCalls == {j \in 1..Len(log) : log[j].op = "effect"}

\* C12: one call h.process_event(e) of a handler whose guard is a callable
\* that returns a bool calls the guard exactly once, calls the effect at
\* most once and only after the guard, calls the effect exactly when the
\* guard returned True, and returns a result whose triggered flag is what the
\* guard returned; the target of the result is the target of the transition
\* when it triggered and None otherwise (always None for an activity).
C12_GuardThenEffect ==
    (/\ call.op = "handler.process_event"
     /\ call.h.guard \notin {None, nonBooleanGuard}) =>
        /\ err = ""
        /\ Cardinality(GuardCalls) = 1
        /\ Cardinality(EffectCalls) <= 1
        /\ \A x \in EffectCalls : \E j \in GuardCalls : j < x
        /\ EffectCalls # {} <=> GuardHeld(call.h)
        /\ Len(log) = Cardinality(GuardCalls) + Cardinality(EffectCalls)
        /\ res.triggered = GuardHeld(call.h)
        /\ res.target = (IF GuardHeld(call.h) THEN call.h.target ELSE None)
        /\ res.target # None => res.triggered

\* a guarded transition asked once: its guard returned True, its effect ran
\* after the guard and the result carries its target
C12_Witness ==
    /\ call.op = "handler.process_event"
    /\ call.h.guard = "g1" /\ call.h.target = "B"
    /\ call.gv["g1"]
    /\ res = [triggered |-> TRUE, target |-> "B"]
    /\ Len(log) = 2

----------------------------------------------------------------------------
(* Claims about one state, checked under SpecState *)

\* the calls the activities hs of state s make for `event` from activity i on
\* when the guards return gv and every action sees is_active() = on
RECURSIVE StateActivityCalls(_, _, _, _, _, _)
StateActivityCalls(hs, s, event, gv, on, i) ==
    IF i > Len(hs) THEN <<>>
    ELSE LET held == hs[i].guard = alwaysTrueGuard \/ gv[hs[i].guard]
         IN  <<Entry("guard", s, event, "a", i, held)>>
             \o (IF held THEN <<Entry("effect", s, event, "a", i, on)>> ELSE <<>>)
             \o StateActivityCalls(hs, s, event, gv, on, i + 1)

\* the calls of s.enter() when the guards return gv
EnterCalls(s, gv) ==
    <<Entry("enter", s, "-", "-", 0, FALSE)>>
    \o StateActivityCalls(acts[s][EnterEvent], s, EnterEvent, gv, TRUE, 1)

\* the calls of s.exit() when the guards return gv
ExitCalls(s, gv) ==
    <<Entry("exit", s, "-", "-", 0, FALSE)>>
    \o StateActivityCalls(acts[s][ExitEvent], s, ExitEvent, gv, TRUE, 1)

\* C13: s.enter() followed immediately by s.exit() runs every enter
\* activity of s (each one whose guard holds), in registration order, then
\* every exit activity of s; is_active() is true for each of these actions,
\* true once enter() has returned and false once exit() has returned.
C13_EnterThenExit ==
    /\ call.op = "State.enter" =>
          /\ log = EnterCalls(call.from, call.gv)
          /\ active[call.from]
    /\ (call.op = "State.exit" /\ call.entered) =>
          /\ log = EnterCalls(call.from, call.gve) \o ExitCalls(call.from, call.gv)
          /\ ~active[call.from]

\* A, not active and holding three enter and three exit activities, was
\* entered and exited at once: six actions ran, all of them while active
C13_Witness ==
    /\ call.op = "State.exit" /\ call.entered /\ call.from = "A"
    /\ ~call.before
    /\ Len(acts["A"][EnterEvent]) = 3 /\ Len(acts["A"][ExitEvent]) = 3
    /\ Cardinality({j \in 1..Len(log) : log[j].op = "effect" /\ log[j].v}) = 6
    /\ ~active["A"]

----------------------------------------------------------------------------
(* Termination of the calls of the flat FSM, checked under Spec *)

\* the states edges lead to from the states of S
Step(edges, S) == {e[2] : e \in {x \in edges : x[1] \in S}}

\* the states reached from S along 1..n edges
RECURSIVE ReachN(_, _, _)
ReachN(edges, S, n) ==
    IF n = 0 THEN {}
    ELSE Step(edges, S) \cup ReachN(edges, Step(edges, S), n - 1)

HasCycle(edges) ==
    \E s \in FlatStates : s \in ReachN(edges, {s}, Cardinality(FlatStates))

\* source and target of the Unnamed transitions whose guard was called in
\* the call and returned True
UnnamedHeld ==
    {<<log[j].st, TargetOf(j)>> :
        j \in {x \in 1..Len(log) : /\ log[x].op = "guard" /\ log[x].k = "t"
                                   /\ log[x].ev = UnnamedEvent /\ log[x].v}}

\* source and target of the Unnamed transitions registered with the
\* always-true guard
UnnamedAlwaysTrue ==
    {<<x[1], trans[x[1]][UnnamedEvent][x[2]].target>> :
        x \in {y \in FlatStates \X (1..(MaxTrans + MaxStops)) :
                  /\ y[2] <= Len(trans[y[1]][UnnamedEvent])
                  /\ trans[y[1]][UnnamedEvent][y[2]].guard = alwaysTrueGuard}}

\* C14 (as stated): a call of start(), stop() or process_event() returns
\* whenever the Unnamed transitions registered with the always-true guard
\* form no cycle.
C14_NoAlwaysTrueCycleTerminates ==
    err = "NoReturn" => HasCycle(UnnamedAlwaysTrue)

\* C14 (amended): a call of start(), stop() or process_event() returns
\* whenever the Unnamed transitions whose guard returns True in the call,
\* the always-true guard or a guard of the user, form no cycle; and a call
\* that returns took at most one transition triggered by another event than
\* Unnamed, in its first dispatch, every later one being triggered by
\* Unnamed.
C14_NoHeldCycleTerminates ==
    /\ err = "NoReturn" => HasCycle(UnnamedHeld)
    /\ err = "" =>
          \A j \in Dispatches("M") :
              (Triggered("M", j) # {} /\ log[j].ev # UnnamedEvent) =>
                  \A x \in Dispatches("M") : j <= x

\* process_event took the transition of the user's event and then an Unnamed
\* transition guarded by g1, which returned True, and returned
C14_Witness ==
    /\ call.op = "process_event" /\ call.ev = UserEvent
    /\ err = ""
    /\ NCur("M") = 2
    /\ \E e \in UnnamedHeld : e[1] # "I"
    /\ \E j \in 1..Len(log) :
          /\ log[j].op = "guard" /\ log[j].ev = UnnamedEvent /\ log[j].v
          /\ trans[log[j].st][UnnamedEvent][log[j].i].guard = "g1"

----------------------------------------------------------------------------
(* Claims about one event table, checked under SpecTable *)

\* the calls a stop-at-first-trigger list hs registered under class c makes
\* from handler i on when the guards return gv
RECURSIVE FirstTriggerCalls(_, _, _, _)
FirstTriggerCalls(hs, c, gv, i) ==
    IF i > Len(hs) THEN <<>>
    ELSE IF hs[i].guard = alwaysTrueGuard \/ gv[hs[i].guard]
    THEN <<Entry("guard", "A", c, "t", i, TRUE), Entry("effect", "A", c, "t", i, FALSE)>>
    ELSE <<Entry("guard", "A", c, "t", i, FALSE)>> \o FirstTriggerCalls(hs, c, gv, i + 1)

\* the handlers of hs whose guard returns True under gv
HeldIn(hs, gv) ==
    {i \in 1..Len(hs) : hs[i].guard = alwaysTrueGuard \/ gv[hs[i].guard]}

\* C15: an event table hands an event (a class or an instance) to the
\* handlers registered under the event's own class and to no other: the
\* calls made are those of that list, the result is the result of its first
\* handler that triggers, and when nothing is registered under that class no
\* handler is called and the result is the untriggered one, whatever is
\* registered under a class it derives from or a class derived from it.
\* add_handler appends to the one list of the event's class and leaves the
\* lists of the other classes alone; clear_handlers_for_event leaves no
\* handler under the event's class and the other lists alone.
C15_ExactTypeLookup ==
    /\ call.op = "table.process_event" =>
          LET hs == trans["A"][call.obj.cls]
          IN  /\ log = FirstTriggerCalls(hs, call.obj.cls, call.gv, 1)
              /\ res = IF HeldIn(hs, call.gv) = {}
                       THEN [triggered |-> FALSE, target |-> None]
                       ELSE [triggered |-> TRUE,
                             target |-> hs[CHOOSE i \in HeldIn(hs, call.gv) :
                                              \A x \in HeldIn(hs, call.gv) : i <= x].target]
    /\ call.op = "table.add_handler" =>
          trans["A"] = [call.before EXCEPT ![call.obj.cls] = Append(@, call.h)]
    /\ call.op = "table.clear_handlers_for_event" =>
          /\ trans["A"] = [call.before EXCEPT ![call.obj.cls] = <<>>]
          /\ ~is_event_a_dict_key(trans["A"], call.obj.cls)

\* an instance of E1 was handed to a table that holds a transition of the
\* always-true guard under E, which is equal to E1 as Event.__eq__ has it,
\* and nothing under E1: no handler was called
C15_Witness ==
    /\ call.op = "table.process_event"
    /\ call.obj = [kind |-> "instance", cls |-> SubEvent]
    /\ Event_eq(call.obj, [kind |-> "class", cls |-> UserEvent])
    /\ trans["A"][SubEvent] = <<>>
    /\ Len(trans["A"][UserEvent]) = 2
    /\ trans["A"][UserEvent][1].guard = alwaysTrueGuard
    /\ log = <<>> /\ ~res.triggered

\* an instance of E was handed to a table that holds triggering transitions
\* under E and under its subclass E1: the one under E ran
C15_WitnessSuper ==
    /\ call.op = "table.process_event"
    /\ call.obj = [kind |-> "instance", cls |-> UserEvent]
    /\ trans["A"][SubEvent] = <<TransitionWithGuard(alwaysTrueGuard, "A")>>
    /\ trans["A"][UserEvent] = <<TransitionWithGuard(alwaysTrueGuard, "B")>>
    /\ res = [triggered |-> TRUE, target |-> "B"]

----------------------------------------------------------------------------
(* Claims about guards that are None or return no bool, checked under       *)
(* SpecBadGuard                                                             *)

BadGuard(h) == h.guard \in {None, nonBooleanGuard}

\* the guard of h returned True in the call
Held(h) == ~BadGuard(h) /\ (h.guard = alwaysTrueGuard \/ call.gv[h.guard])

\* the transitions of hs that are asked up to one whose guard is None or
\* returns no bool: transition b, none before it having triggered
ReachedBad(hs) ==
    {b \in 1..Len(hs) :
        /\ BadGuard(hs[b])
        /\ \A i \in 1..(b - 1) : ~BadGuard(hs[i]) /\ ~Held(hs[i])}

\* the last dispatch of the call
LastDispatch == CHOOSE j \in Dispatches("M") : \A x \in Dispatches("M") : x <= j

\* what dispatch j made the transitions table do, when it failed at
\* transition b: the guards before b were asked and returned False, the
\* guard of b was called if it is not None, no effect ran
FailedLookup(j, b) ==
    LET s == log[j].st
        e == log[j].ev
        t == SelectSeq(SubSeq(log, j + 1, Len(log)), LAMBDA x : x.k = "t")
    IN  t = [i \in 1..(IF trans[s][e][b].guard = None THEN b - 1 ELSE b) |->
                Entry("guard", s, e, "t", i, FALSE)]

\* C16 (as stated): a process_event call that fails on the guard of a
\* transition registered for the event dispatched leaves current and every
\* active flag as they were before the call, and no state was exited or
\* entered in the call.
C16_FailedCallChangesNothing ==
    (call.op = "process_event" /\ err = "AssertionError") =>
        /\ cur["M"] = call.from
        /\ active = call.active
        /\ \A x \in 1..Len(log) : ~Structural(log[x])

\* C16 (amended): when a dispatch of a process_event call reaches, in the
\* list of the current state for the event dispatched, a transition whose
\* guard is None or returns no bool (no transition before it in the list
\* having triggered), the call fails at once with AssertionError: the effect
\* of that transition and the transitions after it are not called, and after
\* that dispatch began no state is exited or entered, current is not
\* assigned and the on-transition-completed list is not notified, so that
\* current is the state the event was dispatched to.  When this is the first
\* dispatch of the call, current and every active flag are as before the
\* call; when it is a chained dispatch of Unnamed, they are as the
\* transitions already taken in the call left them.  A transition behind one
\* that triggers is not asked and its guard makes nothing fail.
C16_BadGuardAborts ==
    call.op = "process_event" =>
        /\ ReachedBad(trans[call.from][call.ev]) # {} =>
              /\ err = "AssertionError"
              /\ Cardinality(Dispatches("M")) = 1
        /\ err = "AssertionError" =>
              LET j == LastDispatch
              IN  /\ \E b \in ReachedBad(trans[log[j].st][log[j].ev]) : FailedLookup(j, b)
                  /\ \A x \in (j + 1)..Len(log) : ~Structural(log[x])
                  /\ cur["M"] = log[j].st
                  /\ Cardinality(Dispatches("M")) = 1 =>
                        cur["M"] = call.from /\ active = call.active
        /\ (err = "" /\ Dispatches("M") # {}) =>
              \A j \in Dispatches("M") : ReachedBad(trans[log[j].st][log[j].ev]) = {}

\* process_event(E) in A, whose transitions for E are one guarded by g1,
\* which returned False, and one whose guard is None or returns no bool: the
\* call failed and A is still current and active
C16_Witness ==
    /\ call.op = "process_event" /\ call.from = "A"
    /\ err = "AssertionError"
    /\ Len(trans["A"][UserEvent]) = 2
    /\ trans["A"][UserEvent][1].guard = "g1"
    /\ 2 \in ReachedBad(trans["A"][UserEvent])
    /\ cur["M"] = "A" /\ active["A"] /\ ~active["B"]

\* a transition whose guard is None stands behind one that triggered: the
\* call returned
C16_WitnessMasked ==
    /\ call.op = "process_event" /\ call.from = "A"
    /\ err = ""
    /\ Len(trans["A"][UserEvent]) = 2
    /\ trans["A"][UserEvent][2].guard = None
    /\ cur["M"] = "B"

----------------------------------------------------------------------------
(* start() and stop() of the flat FSM, checked under SpecBadGuard *)

\* C17: start() called while current is a regular state raises
\* AssertionError: current and every active flag stay as they were and
\* nothing is called, no activity either.  Called while current is the
\* initial or the final pseudostate it hands Enter to the initial
\* pseudostate first, with the start activities, and then takes the initial
\* transition as the first Unnamed transition; a machine that was stopped is
\* started again this way.
C17_StartPrecondition ==
    call.op = "start" =>
        /\ call.from \notin {"I", "F"} =>
              /\ err = "AssertionError"
              /\ log = <<>>
              /\ cur["M"] = call.from
              /\ active = call.active
        /\ call.from \in {"I", "F"} =>
              /\ Len(log) >= 5
              /\ SubSeq(log, 1, 5) =
                    <<Entry("dispatch", "I", EnterEvent, "M", 0, FALSE),
                      Entry("guard", "I", EnterEvent, "a", 1, TRUE),
                      Entry("effect", "I", EnterEvent, "a", 1, FALSE),
                      Entry("dispatch", "I", UnnamedEvent, "M", 0, FALSE),
                      Entry("guard", "I", UnnamedEvent, "t", 1, TRUE)>>
              /\ err = "" => cur["M"] \in {"A", "B"} /\ active[cur["M"]]

\* start() of a machine that was stopped: it runs again from its first state
C17_Witness ==
    /\ call.op = "start" /\ call.from = "F"
    /\ err = ""
    /\ cur["M"] = "A" /\ active["A"]

\* start() of a machine that is in A: the call failed
C17_WitnessRunning ==
    /\ call.op = "start" /\ call.from = "A"
    /\ err = "AssertionError"
    /\ cur["M"] = "A" /\ active["A"]

----------------------------------------------------------------------------
(* The transition stop() installs, checked under Spec *)

\* C18: a stop() call that returns leaves every state with the transitions
\* it had before the call: the transition to final that the call added to
\* the current state for the Exit event served this call only, so that
\* has_transition_for(Exit) of that state is what it was and start()/stop()
\* cycles add nothing to it.
C18_StopTransitionOneShot ==
    [][(call'.op = "stop" /\ err' = "") =>
          /\ is_event_a_dict_key(trans'[cur["M"]], ExitEvent)
                = is_event_a_dict_key(trans[cur["M"]], ExitEvent)
          /\ Len(trans'[cur["M"]][ExitEvent]) = Len(trans[cur["M"]][ExitEvent])]_vars

----------------------------------------------------------------------------
(* The target of a transition of the HSM, checked under SpecHSM *)

\* C19: every transition hsm.dispatch triggers, wherever its target lies
\* (a sibling of the current state, a state of another subtree, the current
\* state itself, one of its ancestors or descendants), is completed without
\* IndexError, and current is assigned the target of the transition.
C19_TargetBecomesCurrent ==
    \A j \in Dispatches("hsm") :
        \A x \in HsmTriggered(j) :
            /\ err # "IndexError"
            /\ err = "" =>
                  /\ HsmAssigned(j) < SegEnd("hsm", j)
                  /\ log[HsmAssigned(j)].st = TargetOf(x)

----------------------------------------------------------------------------
(* The initial transition, checked under SpecInitial *)

\* the one transition the initial pseudostate of M is to hold
OnlyInitialTransition(target) ==
    [NoHandlers EXCEPT ![UnnamedEvent] = <<Transition(target)>>]

\* C20: the initial pseudostate of M holds one transition and no other, an
\* Unnamed transition with the always-true guard: to the first state of the
\* list M was built from (to final when the list is empty) after
\* construction, to the state given after a call M.set_initial_state(state)
\* that returns, and unchanged by every other step.
C20_InitialTransition ==
    /\ trans["I"] = OnlyInitialTransition(FSM_init_target("M", states["M"]))
    /\ [][IF call'.op = "set_initial_state" /\ err' = ""
          THEN trans'["I"] = OnlyInitialTransition(call'.state)
          ELSE trans'["I"] = trans["I"]]_vars

\* C20, the steps of M alone: the same, the construction of other machines
\* left aside
C20_InitialTransitionOfM ==
    /\ trans["I"] = OnlyInitialTransition(FSM_init_target("M", states["M"]))
    /\ [][IF call'.op = "set_initial_state" /\ err' = ""
          THEN trans'["I"] = OnlyInitialTransition(call'.state)
          ELSE call'.op # "FSM.__init__" => trans'["I"] = trans["I"]]_vars

----------------------------------------------------------------------------
(* The states a machine owns, checked under SpecOwned *)

\* the states of M, its pseudostates included
Owned == Range(states["M"]) \cup {Initial("M"), Final("M")}

\* C21: after every call, current of the flat FSM is a state the machine
\* owns: a state of its list, its initial or its final pseudostate; no
\* transition to a state that is not owned is ever followed, and no such
\* state is made the target of the initial transition.
C21_CurrentIsOwned ==
    /\ cur["M"] \in Owned
    /\ \A i \in 1..Len(trans["I"][UnnamedEvent]) :
          trans["I"][UnnamedEvent][i].target \in Owned

\* C21, the initial binding alone: set_initial_state never binds the initial
\* transition to a state the machine does not own
C21_InitialBindingIsOwned ==
    \A i \in 1..Len(trans["I"][UnnamedEvent]) :
        trans["I"][UnnamedEvent][i].target \in Owned

----------------------------------------------------------------------------
(* Two machines, checked under SpecShared *)

\* what the claim says a call on N leaves alone: the transitions of the
\* initial pseudostate of M, the start and stop activities of M, current of
\* M and the active flags of the states of M
OfM(tr, ac, cu, av) ==
    [initial |-> tr[Initial("M")],
     start |-> ac[Initial("M")][EnterEvent],
     stop |-> ac[Final("M")][EnterEvent],
     current |-> cu["M"],
     active |-> [s \in Range(states["M"]) \cup {Initial("M"), Final("M")} |-> av[s]]]

\* C22: no call on N (its construction, set_initial_state,
\* add_start_activity, add_stop_activity, start, stop, process_event)
\* changes the target of the initial transition of M, the start or stop
\* activities of M, current of M or the active flag of a state of M.
C22_MachinesAreSeparate ==
    [][("machine" \in DOMAIN call' /\ call'.machine = "N") =>
          OfM(trans', acts', cur', active') = OfM(trans, acts, cur, active)]_vars

\* C22, current alone: no call on N changes current of M
C22_CurrentOfM ==
    [][("machine" \in DOMAIN call' /\ call'.machine = "N") =>
          cur'["M"] = cur["M"]]_vars

----------------------------------------------------------------------------
(* The active flags of the flat FSM, checked under Spec *)

\* C23: when a call of start(), stop() or process_event() has returned, no
\* state or pseudostate of the flat FSM is active but the one that is
\* current, so at most one is.
C23_OnlyCurrentIsActive ==
    err = "" => \A s \in FlatStates : active[s] => s = cur["M"]

\* C23, up to the first stop(): as long as the machine was not stopped, no
\* state is active but the one that is current
C23_OnlyCurrentIsActiveBeforeStop ==
    (err = "" /\ nstop = 0 /\ call.op # "stop") =>
        \A s \in FlatStates : active[s] => s = cur["M"]

----------------------------------------------------------------------------
(* The exit activities of a state that is left, checked under Spec *)

\* the number of times exit activity n of state s ran in the part of the log
\* that dispatch j of M produced
ExitActivityRuns(j, s, n) ==
    Cardinality({x \in j..(SegEnd("M", j) - 1) :
                    /\ log[x].op = "effect" /\ log[x].st = s
                    /\ log[x].ev = ExitEvent /\ log[x].k = "a" /\ log[x].i = n})

\* C24: in a call that returns, every dispatch in which the machine leaves
\* its current state, by a transition for an event of the user or for
\* Unnamed or by the transition to final of stop(), runs each exit activity
\* of that state exactly once.
C24_ExitActivitiesOnce ==
    err = "" =>
        \A j \in Dispatches("M") :
            Triggered("M", j) # {} =>
                \A n \in 1..Len(acts[log[j].st][ExitEvent]) :
                    ExitActivityRuns(j, log[j].st, n) = 1

\* C24, the transitions for other events than Exit: each exit activity of
\* the state left runs exactly once
C24_ExitActivitiesOnceByTransition ==
    err = "" =>
        \A j \in Dispatches("M") :
            (Triggered("M", j) # {} /\ log[j].ev # ExitEvent) =>
                \A n \in 1..Len(acts[log[j].st][ExitEvent]) :
                    ExitActivityRuns(j, log[j].st, n) = 1

====
